---------------------------- MODULE Spec2Model ----------------------------
(***************************************************************************)
(* A model of the Pitsweeper propositional knowledge base:                 *)
(*   src/src/maze_clause.py          MazeClause (constructor, resolve)     *)
(*   src/src/maze_knowledge_base.py  MazeKnowledgeBase (tell, ask,         *)
(*                                   simplify_self)                        *)
(*                                                                         *)
(* A MazeClause is the record [props, valid]: props is the dict            *)
(* proposition -> truth value (a function on the set of its keys), valid   *)
(* the tautology flag.  A Python set of MazeClauses finds an element only  *)
(* when the hashes agree (hash of the dict's ITEMS and of valid) and then  *)
(* __eq__ agrees (the dict's KEYS and valid), so two elements of a set are *)
(* the same exactly when props and valid are the same: a set of clauses is *)
(* a set of these records.                                                 *)
(***************************************************************************)
EXTENDS Integers, Sequences, FiniteSets, TLC

\* ------------------------------------------------------------------ bounds
\* longest sequence of (proposition, truth value) pairs given to MazeClause
MaxLen == 4
\* tell is called at most this many times
MaxTell == 2
\* simplify_self is called at most this many times
MaxSimplify == 2
\* most clauses in a clause set given to get_simplified_clauses
MaxStore == 3

\* ---------------------------------------------------------------- universe
Locs == {<<1, 1>>, <<2, 1>>, <<2, 2>>}
Props == {<<"P", loc>> : loc \in Locs}
Literals == Props \X BOOLEAN
InputSeqs == UNION {[1..n -> Literals] : n \in 0..MaxLen}

\* the empty dict
EmptyDict == [p \in {} |-> TRUE]

\* =========================================================== maze_clause.py

\* self.props[prop] = truth_value
DictSet(d, prop, truth_value) ==
    [p \in (DOMAIN d) \cup {prop} |-> IF p = prop THEN truth_value ELSE d[p]]

\* the same loop without self.props.clear()
RECURSIVE InitLoopNoClear(_, _, _)
InitLoopNoClear(props, i, d) ==
    IF i > Len(props) THEN [props |-> d, valid |-> FALSE]
    ELSE LET prop == props[i][1]
             truth_value == props[i][2]
         IN  IF prop \in DOMAIN d
             THEN IF d[prop] # truth_value
                  THEN [props |-> d, valid |-> TRUE]
                  ELSE InitLoopNoClear(props, i + 1, d)
             ELSE InitLoopNoClear(props, i + 1, DictSet(d, prop, truth_value))

\* the same loop taking any repeated proposition for a complementary pair
RECURSIVE InitLoopAnyRepeat(_, _, _)
InitLoopAnyRepeat(props, i, d) ==
    IF i > Len(props) THEN [props |-> d, valid |-> FALSE]
    ELSE LET prop == props[i][1]
             truth_value == props[i][2]
         IN  IF prop \in DOMAIN d
             THEN [props |-> EmptyDict, valid |-> TRUE]
             ELSE InitLoopAnyRepeat(props, i + 1, DictSet(d, prop, truth_value))

\* the for loop of __init__, from entry i on, with the dict built so far
RECURSIVE InitLoop(_, _, _)
InitLoop(props, i, d) ==
    IF i > Len(props) THEN [props |-> d, valid |-> FALSE]
    ELSE LET prop == props[i][1]
             truth_value == props[i][2]
         IN  IF prop \in DOMAIN d
             THEN IF d[prop] # truth_value
                  THEN [props |-> EmptyDict, valid |-> TRUE]
                  ELSE InitLoop(props, i + 1, d)
             ELSE InitLoop(props, i + 1, DictSet(d, prop, truth_value))

\* MazeClause(props)
MazeClause(props) == InitLoop(props, 1, EmptyDict)

\* Optional[bool]: None, and the bool v
None == [some |-> FALSE, val |-> FALSE]
Some(v) == [some |-> TRUE, val |-> v]

\* clause.get_prop(prop)
get_prop(clause, prop) ==
    IF prop \notin DOMAIN clause.props THEN None ELSE Some(clause.props[prop])

is_valid(clause) == clause.valid

is_empty(clause) == (~clause.valid) /\ Cardinality(DOMAIN clause.props) = 0

\* len(clause)
ClauseLen(clause) == Cardinality(DOMAIN clause.props)

\* dict.items() as a sequence (a dict has one item per key; the order of
\* the items is the dict's, here any fixed one)
RECURSIVE Items(_)
Items(d) ==
    IF DOMAIN d = {} THEN <<>>
    ELSE LET p == CHOOSE k \in DOMAIN d : TRUE
         IN  <<<<p, d[p]>>>> \o Items([k \in (DOMAIN d) \ {p} |-> d[k]])

\* {**d1, **d2}
DictMerge(d1, d2) ==
    [p \in (DOMAIN d1) \cup (DOMAIN d2) |-> IF p \in DOMAIN d2 THEN d2[p] ELSE d1[p]]

\* the complementary props of resolve, as a set (only their number and,
\* when there is one, its identity are used)
ComplementaryProps(c1, c2) ==
    {prop \in DOMAIN c1.props :
        prop \in DOMAIN c2.props /\ c1.props[prop] # c2.props[prop]}

\* resolve that resolves on one of several complementary props
resolveAnyComplement(c1, c2) ==
    LET complementary_props == ComplementaryProps(c1, c2)
    IN  IF Cardinality(complementary_props) = 0 THEN {}
        ELSE LET complementary_prop == CHOOSE p \in complementary_props : TRUE
                 merged == DictMerge(c1.props, c2.props)
                 new_props == [p \in (DOMAIN merged) \ {complementary_prop} |-> merged[p]]
                 new_clause == MazeClause(Items(new_props))
             IN  IF ~new_clause.valid THEN {new_clause} ELSE {}

\* resolve without del new_props[complementary_prop]
resolveKeepComplement(c1, c2) ==
    LET complementary_props == ComplementaryProps(c1, c2)
    IN  IF Cardinality(complementary_props) # 1 THEN {}
        ELSE LET new_props == DictMerge(c1.props, c2.props)
                 new_clause == MazeClause(Items(new_props))
             IN  IF ~new_clause.valid THEN {new_clause} ELSE {}

\* MazeClause.resolve(c1, c2)
resolve(c1, c2) ==
    LET complementary_props == ComplementaryProps(c1, c2)
    IN  IF Cardinality(complementary_props) # 1 THEN {}
        ELSE LET complementary_prop == CHOOSE p \in complementary_props : TRUE
                 merged == DictMerge(c1.props, c2.props)
                 new_props == [p \in (DOMAIN merged) \ {complementary_prop} |-> merged[p]]
                 new_clause == MazeClause(Items(new_props))
             IN  IF ~new_clause.valid THEN {new_clause} ELSE {}

\* every clause the constructor can build from the bounded inputs
AllClauses == {MazeClause(s) : s \in InputSeqs}

\* =================================================== maze_knowledge_base.py

VARIABLES
    clauses,      \* self.clauses, the store
    op,           \* the operation that ran last
    pre,          \* the store when that operation was called
    pc,           \* "idle", or "loop" while ask is in its while loop
    query,        \* the query of the ask that ran last
    temp_kb,      \* ask's working set
    new,          \* ask's accumulated resolvents
    rounds,       \* the rounds of its while loop that ask has run
    ret,          \* what the last ask returned
    known_pits,   \* the arguments of the last simplify_self
    known_safe,
    told,         \* the argument of the last tell
    ntell,        \* how many times tell has run
    nsimplify,    \* how many times simplify_self has run
    props_in,     \* the argument of the last MazeClause(...)
    built,        \* the clause it built
    c1, c2,       \* the arguments of the last resolve
    resolvents    \* the set it returned

vars == <<clauses, op, pre, pc, query, temp_kb, new, rounds, ret,
          known_pits, known_safe, told, ntell, nsimplify,
          props_in, built, c1, c2, resolvents>>

askVars == <<query, temp_kb, new, rounds, ret>>
simplifyVars == <<known_pits, known_safe>>
clauseVars == <<props_in, built, c1, c2, resolvents>>

EmptyClause == MazeClause(<<>>)

\* the variables that describe the last operation hold these values while
\* another operation is the last one
NoAsk ==
    query' = EmptyClause /\ temp_kb' = {} /\ new' = {} /\ rounds' = 0 /\ ret' = FALSE
NoTell == told' = EmptyClause
NoConstruct == props_in' = <<>> /\ built' = EmptyClause
NoResolve == c1' = EmptyClause /\ c2' = EmptyClause /\ resolvents' = {}

\* __init__: an empty store
Init ==
    /\ clauses = {}
    /\ op = "init"
    /\ pre = {}
    /\ pc = "idle"
    /\ query = EmptyClause
    /\ temp_kb = {}
    /\ new = {}
    /\ rounds = 0
    /\ ret = FALSE
    /\ known_pits = {}
    /\ known_safe = {}
    /\ told = EmptyClause
    /\ ntell = 0
    /\ nsimplify = 0
    /\ props_in = <<>>
    /\ built = EmptyClause
    /\ c1 = EmptyClause
    /\ c2 = EmptyClause
    /\ resolvents = {}

\* MazeClause.__eq__: the same proposition keys and the same valid flag
ClauseEq(a, b) == DOMAIN a.props = DOMAIN b.props /\ a.valid = b.valid

\* a hash over the proposition keys alone
ClauseHashKeys(c) == <<DOMAIN c.props, c.valid>>

\* MazeClause.__hash__: hash((frozenset(self.props.items()), self.valid)),
\* taken as the pair it hashes (two different pairs have different hashes)
ClauseHash(c) == <<c.props, c.valid>>

\* set.add(c): c is dropped when the set holds an element with c's hash that
\* __eq__ finds equal to c, and is added otherwise
SetAdd(s, c) ==
    IF \E e \in s : ClauseHash(e) = ClauseHash(c) /\ ClauseEq(e, c)
    THEN s
    ELSE s \cup {c}

\* tell(clause)
Tell(clause) ==
    /\ pc = "idle"
    /\ ntell < MaxTell
    /\ ntell' = ntell + 1
    /\ told' = clause
    /\ clauses' = SetAdd(clauses, clause)
    /\ op' = "tell"
    /\ pre' = {}
    /\ NoAsk
    /\ UNCHANGED <<pc, simplifyVars, nsimplify, clauseVars>>

\* the query put in the working set as it is, not negated
NegatedQueryKeep(q) == MazeClause(Items(q.props))

\* ask, lines 44-50: the negated query, the working copy, new = set()
NegatedQuery(q) ==
    LET negated_props == [p \in DOMAIN q.props |-> ~q.props[p]]
    IN  MazeClause(Items(negated_props))

\* ask working on the store itself (temp_kb = self.clauses, no deepcopy)
AskBeginNoCopy(q) ==
    /\ pc = "idle"
    /\ query' = q
    /\ temp_kb' = clauses \cup {NegatedQuery(q)}
    /\ clauses' = temp_kb'
    /\ new' = {}
    /\ rounds' = 0
    /\ pc' = "loop"
    /\ op' = "ask"
    /\ pre' = clauses
    /\ ret' = FALSE
    /\ NoTell
    /\ UNCHANGED <<simplifyVars, ntell, nsimplify, clauseVars>>

AskBegin(q) ==
    /\ pc = "idle"
    /\ query' = q
    /\ temp_kb' = clauses \cup {NegatedQuery(q)}
    /\ new' = {}
    /\ rounds' = 0
    /\ pc' = "loop"
    /\ op' = "ask"
    /\ pre' = clauses
    /\ ret' = FALSE
    /\ NoTell
    /\ UNCHANGED <<clauses, simplifyVars, ntell, nsimplify, clauseVars>>

\* every resolvent of one pass of the for loop over
\* itertools.combinations(temp_kb, 2): each pair of two different clauses is
\* resolved once, in the order the set yields them; resolve gives the same
\* set for both orders (ResolveSymmetric), so both are taken here
RoundResolvents(kb) ==
    UNION {resolve(a, b) : <<a, b>> \in {pr \in kb \X kb : pr[1] # pr[2]}}

\* the round giving up when its first pass finds no empty clause
AskRoundNoRepeat ==
    /\ pc = "loop"
    /\ rounds' = rounds + 1
    /\ ret' = (EmptyClause \in RoundResolvents(temp_kb))
    /\ pc' = "idle"
    /\ temp_kb' = {}
    /\ new' = {}
    /\ UNCHANGED <<clauses, op, pre, query, simplifyVars, told, ntell, nsimplify, clauseVars>>

\* the round with the fixpoint test turned round (temp_kb.issubset(new))
AskRoundWrongTest ==
    /\ pc = "loop"
    /\ rounds' = rounds + 1
    /\ LET resolved == RoundResolvents(temp_kb)
       IN  IF EmptyClause \in resolved
           THEN /\ ret' = TRUE
                /\ pc' = "idle"
                /\ temp_kb' = {}
                /\ new' = {}
           ELSE LET new2 == new \cup resolved
                IN  IF temp_kb \subseteq new2
                    THEN /\ ret' = FALSE
                         /\ pc' = "idle"
                         /\ temp_kb' = {}
                         /\ new' = {}
                    ELSE /\ temp_kb' = temp_kb \cup new2
                         /\ new' = new2
                         /\ UNCHANGED <<ret, pc>>
    /\ UNCHANGED <<clauses, op, pre, query, simplifyVars, told, ntell, nsimplify, clauseVars>>

\* ask, lines 52-64: one round of the while loop
AskRound ==
    /\ pc = "loop"
    /\ rounds' = rounds + 1
    /\ LET resolved == RoundResolvents(temp_kb)
       IN  IF EmptyClause \in resolved
           THEN /\ ret' = TRUE
                /\ pc' = "idle"
                /\ temp_kb' = {}
                /\ new' = {}
           ELSE LET new2 == new \cup resolved
                IN  IF new2 \subseteq temp_kb
                    THEN /\ ret' = FALSE
                         /\ pc' = "idle"
                         /\ temp_kb' = {}
                         /\ new' = {}
                    ELSE /\ temp_kb' = temp_kb \cup new2
                         /\ new' = new2
                         /\ UNCHANGED <<ret, pc>>
    /\ UNCHANGED <<clauses, op, pre, query, simplifyVars, told, ntell, nsimplify, clauseVars>>

\* a for loop that skips no clause
CandidatesAll(cls) == cls

\* get_simplified_clauses: the clauses its for loop does not skip
Candidates(cls) == {c \in cls : ClauseLen(c) # 1}

\* a break at any clause that holds the proposition, whatever its polarity
SubsumedAnyPolarity(cls, loc, is_pit) ==
    {c \in Candidates(cls) : get_prop(c, <<"P", loc>>) # None}

\* the clauses at which the for loop breaks when it meets them
Subsumed(cls, loc, is_pit) ==
    {c \in Candidates(cls) : get_prop(c, <<"P", loc>>) = Some(is_pit)}

\* get_simplified_clauses(clauses, loc, is_pit) for one run of its for
\* loop: `visited` are the clauses the loop resolved with sani_clause and
\* `broke` holds the clause at which it broke (no clause: it ran to the end)
get_simplified_clauses(cls, loc, is_pit, visited, broke) ==
    LET sani_clause == MazeClause(<<<<<<"P", loc>>, is_pit>>>>)
        to_add == UNION {resolve(clause, sani_clause) : clause \in visited}
        to_rem == broke
    IN  (cls \cup to_add) \ to_rem

\* the for loop without its break: every candidate is visited and every
\* clause that contains the known fact is removed
LoopRunsNoBreak(cls, loc, is_pit) ==
    LET sub == Subsumed(cls, loc, is_pit)
        rest == Candidates(cls) \ sub
    IN  {[visited |-> rest, broke |-> sub]}

\* The runs the for loop can make: a set is iterated in an order the program
\* does not choose, so the loop breaks at any one of the Subsumed clauses,
\* having visited any of the other candidates before it; with no Subsumed
\* clause it visits every candidate.
LoopRuns(cls, loc, is_pit) ==
    LET sub == Subsumed(cls, loc, is_pit)
        rest == Candidates(cls) \ sub
    IN  IF sub = {}
        THEN {[visited |-> rest, broke |-> {}]}
        ELSE {[visited |-> v, broke |-> {b}] : v \in SUBSET rest, b \in sub}

\* every set one call of get_simplified_clauses can return
PassOutcomes(cls, loc, is_pit) ==
    {get_simplified_clauses(cls, loc, is_pit, r.visited, r.broke) :
        r \in LoopRuns(cls, loc, is_pit)}

\* simplify_from_known_locs: one pass per location of todo, each on the
\* result of the one before, the locations in any order
RECURSIVE simplify_from_known_locs(_, _, _)
simplify_from_known_locs(cls, todo, kpits) ==
    IF todo = {} THEN {cls}
    ELSE UNION {UNION {simplify_from_known_locs(next, todo \ {loc}, kpits) :
                        next \in PassOutcomes(cls, loc, loc \in kpits)} :
                loc \in todo}

\* simplify_self(known_pits, known_safe).  Its callers pass two disjoint
\* sets, and call it again "only ... when new information has been added to
\* the known pit or safe tile locations" (or with the same sets): the known
\* locations only grow from one call to the next.
SimplifySelf(kpits, ksafe) ==
    /\ pc = "idle"
    /\ nsimplify < MaxSimplify
    /\ kpits \cap ksafe = {}
    /\ known_pits \subseteq kpits
    /\ known_safe \subseteq ksafe
    /\ nsimplify' = nsimplify + 1
    /\ \E result \in simplify_from_known_locs(clauses, kpits \cup ksafe, kpits) :
           clauses' = result
    /\ known_pits' = kpits
    /\ known_safe' = ksafe
    /\ op' = "simplify"
    /\ pre' = clauses
    /\ NoAsk
    /\ NoTell
    /\ UNCHANGED <<pc, ntell, clauseVars>>

\* MazeClause(props), called by a client; the constructor and resolve are
\* pure, so one call from the initial state shows all a call can do
Construct(props) ==
    /\ op = "init"
    /\ props_in' = props
    /\ built' = MazeClause(props)
    /\ op' = "construct"
    /\ NoResolve
    /\ UNCHANGED <<clauses, pre, pc, askVars, simplifyVars, told, ntell, nsimplify>>

\* MazeClause.resolve(a, b), called by a client
Resolve(a, b) ==
    /\ op = "init"
    /\ c1' = a
    /\ c2' = b
    /\ resolvents' = resolve(a, b)
    /\ op' = "resolve"
    /\ NoConstruct
    /\ UNCHANGED <<clauses, pre, pc, askVars, simplifyVars, told, ntell, nsimplify>>

\* --------------------------------------------------------- specifications

\* the clause operations alone
NextClause ==
    \/ \E props \in InputSeqs : Construct(props)
    \/ \E a \in AllClauses : \E b \in AllClauses : Resolve(a, b)

SpecClause == Init /\ [][NextClause]_vars

\* a store that is told clauses and asked queries
NextAsk ==
    \/ \E clause \in AllClauses : Tell(clause)
    \/ \E q \in AllClauses : AskBegin(q)
    \/ AskRound

SpecAsk == Init /\ [][NextAsk]_vars

\* a store that is told clauses and simplified
NextSimplify ==
    \/ \E clause \in AllClauses : Tell(clause)
    \/ \E kpits \in SUBSET Locs : \E ksafe \in SUBSET Locs : SimplifySelf(kpits, ksafe)

SpecSimplify == Init /\ [][NextSimplify]_vars

\* the example of simplify_self's docstring:
\* KB = {(P(1,1) v ~P(2,1)) ^ (~P(1,1) v P(1,2))}, told in two calls
DocExampleLocs == {<<1, 1>>, <<2, 1>>, <<1, 2>>}

DocExampleKB ==
    {MazeClause(<<<<<<"P", <<1, 1>>>>, TRUE>>, <<<<"P", <<2, 1>>>>, FALSE>>>>),
     MazeClause(<<<<<<"P", <<1, 1>>>>, FALSE>>, <<<<"P", <<1, 2>>>>, TRUE>>>>)}

InitDocExample ==
    /\ clauses = DocExampleKB
    /\ op = "tell"
    /\ pre = {}
    /\ pc = "idle"
    /\ query = EmptyClause
    /\ temp_kb = {}
    /\ new = {}
    /\ rounds = 0
    /\ ret = FALSE
    /\ known_pits = {}
    /\ known_safe = {}
    /\ told \in DocExampleKB
    /\ ntell = 2
    /\ nsimplify = 0
    /\ props_in = <<>>
    /\ built = EmptyClause
    /\ c1 = EmptyClause
    /\ c2 = EmptyClause
    /\ resolvents = {}

NextDocExample ==
    \E kpits \in SUBSET DocExampleLocs : \E ksafe \in SUBSET DocExampleLocs :
        SimplifySelf(kpits, ksafe)

\* the docstring's store, simplified
SpecDocExample == InitDocExample /\ [][NextDocExample]_vars

\* get_simplified_clauses(clauses, loc, is_pit) on any set of up to MaxStore
\* clauses: simplify_self makes exactly this one call when the known
\* locations are the one location loc, known_pits = {loc} for is_pit and
\* known_safe = {loc} otherwise.  The set is a store after its clauses
\* were told; ClauseSets(n) are the sets of 1 to n clauses (n >= 1).
RECURSIVE ClauseSets(_)
ClauseSets(n) ==
    IF n = 0 THEN {{}}
    ELSE {s \cup {c} : s \in ClauseSets(n - 1), c \in AllClauses}

InitOnePass ==
    /\ clauses \in ClauseSets(MaxStore)
    /\ op = "tell"
    /\ pre = {}
    /\ pc = "idle"
    /\ query = EmptyClause
    /\ temp_kb = {}
    /\ new = {}
    /\ rounds = 0
    /\ ret = FALSE
    /\ known_pits = {}
    /\ known_safe = {}
    /\ told \in clauses
    /\ ntell = Cardinality(clauses)
    /\ nsimplify = 0
    /\ props_in = <<>>
    /\ built = EmptyClause
    /\ c1 = EmptyClause
    /\ c2 = EmptyClause
    /\ resolvents = {}

NextOnePass ==
    \E loc \in Locs : \E is_pit \in BOOLEAN :
        SimplifySelf(IF is_pit THEN {loc} ELSE {}, IF is_pit THEN {} ELSE {loc})

SpecOnePass == InitOnePass /\ [][NextOnePass]_vars

\* ------------------------------------------------------ propositional logic

Assignments == [Props -> BOOLEAN]

\* the truth assignment a makes the clause true
Satisfies(a, clause) ==
    clause.valid \/ \E p \in DOMAIN clause.props : a[p] = clause.props[p]

SatisfiesAll(a, cls) == \A c \in cls : Satisfies(a, c)

\* the conjunction of cls entails the clause q
Entails(cls, q) == \A a \in Assignments : SatisfiesAll(a, cls) => Satisfies(a, q)

Lit(x, y, v) == <<<<"P", <<x, y>>>>, v>>

\* ================================================================== claims

\* resolve gives the same set for both orders of its arguments (used by
\* RoundResolvents)
ResolveSymmetric == op = "resolve" => resolvents = resolve(c2, c1)

\* entry i and entry j of the input give one proposition both polarities
ComplementaryEntries(props, i, j) ==
    props[i][1] = props[j][1] /\ props[i][2] # props[j][2]

HasComplementaryPair(props) ==
    \E i \in 1..Len(props) : \E j \in 1..Len(props) : ComplementaryEntries(props, i, j)

SuppliedProps(props) == {props[i][1] : i \in 1..Len(props)}

\* C5: an input in which some proposition occurs with both polarities
\* builds a clause that is valid and holds no proposition (len 0, get_prop
\* None for every proposition), whatever surrounds the complementary pair.
C5_ComplementaryInputIsValid ==
    (op = "construct" /\ HasComplementaryPair(props_in)) =>
        /\ is_valid(built)
        /\ ClauseLen(built) = 0
        /\ \A p \in Props : get_prop(built, p) = None

\* a complementary pair with another proposition before it and after it
C5_Witness ==
    /\ op = "construct"
    /\ Len(props_in) = 4
    /\ ComplementaryEntries(props_in, 2, 3)
    /\ props_in[1][1] # props_in[2][1]
    /\ props_in[4][1] \notin {props_in[1][1], props_in[2][1]}
    /\ is_valid(built)

\* C6: an input with no proposition under both polarities builds a clause
\* that is not valid, holds as many propositions as distinct ones were
\* supplied, and get_prop gives the supplied polarity of each supplied
\* proposition and None for every other one.
C6_ConsistentInputIsStored ==
    (op = "construct" /\ ~HasComplementaryPair(props_in)) =>
        /\ ~is_valid(built)
        /\ ClauseLen(built) = Cardinality(SuppliedProps(props_in))
        /\ \A i \in 1..Len(props_in) :
               get_prop(built, props_in[i][1]) = Some(props_in[i][2])
        /\ \A p \in Props \ SuppliedProps(props_in) : get_prop(built, p) = None

\* a literal supplied twice around a literal of another proposition
C6_Witness ==
    /\ op = "construct"
    /\ Len(props_in) = 3
    /\ props_in[1] = props_in[3]
    /\ props_in[2][1] # props_in[1][1]
    /\ ClauseLen(built) = 2
    /\ ~is_valid(built)

\* the propositions that occur in a and in b with opposite polarities
OppositeIn(a, b) ==
    {p \in Props : /\ get_prop(a, p) # None
                   /\ get_prop(b, p) # None
                   /\ get_prop(a, p) # get_prop(b, p)}

\* C7: when the number of propositions that occur in both clauses with
\* opposite polarities is 0 or is 2 or more, resolve returns the empty set.
C7_NoResolventUnlessOneComplement ==
    (op = "resolve" /\ Cardinality(OppositeIn(c1, c2)) # 1) => resolvents = {}

\* two clauses with two complementary propositions were resolved
C7_Witness ==
    /\ op = "resolve"
    /\ Cardinality(OppositeIn(c1, c2)) = 2
    /\ ClauseLen(c1) = 3
    /\ resolvents = {}

\* C8: with exactly one complementary proposition x, resolve returns
\* exactly one clause; it is not valid and its literals are exactly the
\* literals of c1 and of c2 other than x, each with the polarity of its
\* source clause; from the unit clauses x and ~x it is the empty clause.
C8_OneComplementOneResolvent ==
    (op = "resolve" /\ Cardinality(OppositeIn(c1, c2)) = 1) =>
        /\ Cardinality(resolvents) = 1
        /\ \A r \in resolvents :
              /\ ~is_valid(r)
              /\ \A p \in Props :
                    get_prop(r, p) =
                        IF p \in OppositeIn(c1, c2) THEN None
                        ELSE IF get_prop(c1, p) # None THEN get_prop(c1, p)
                        ELSE get_prop(c2, p)
              /\ (ClauseLen(c1) = 1 /\ ClauseLen(c2) = 1) => is_empty(r)

\* (A v x) and (B v ~x) were resolved to (A v B)
C8_Witness ==
    /\ op = "resolve"
    /\ c1 = MazeClause(<<Lit(1, 1, TRUE), Lit(2, 1, TRUE)>>)
    /\ c2 = MazeClause(<<Lit(1, 1, FALSE), Lit(2, 2, FALSE)>>)
    /\ resolvents = {MazeClause(<<Lit(2, 1, TRUE), Lit(2, 2, FALSE)>>)}

\* an ask has returned
AskReturned == op = "ask" /\ pc = "idle"

\* C1: for a store without the empty clause and a single-literal query,
\* ask returns true exactly when every truth assignment that satisfies all
\* stored clauses satisfies the query; {P(1,1) v P(2,1), ~P(1,1)} gives
\* ask(P(2,1)) = true and {P(1,1)} gives ask(P(2,2)) = false.
C1_AskSingleLiteral ==
    /\ (AskReturned /\ EmptyClause \notin clauses /\ ClauseLen(query) = 1) =>
           (ret <=> Entails(clauses, query))
    /\ ( /\ AskReturned
         /\ clauses = {MazeClause(<<Lit(1, 1, TRUE), Lit(2, 1, TRUE)>>),
                       MazeClause(<<Lit(1, 1, FALSE)>>)}
         /\ query = MazeClause(<<Lit(2, 1, TRUE)>>) ) => ret
    /\ ( /\ AskReturned
         /\ clauses = {MazeClause(<<Lit(1, 1, TRUE)>>)}
         /\ query = MazeClause(<<Lit(2, 2, TRUE)>>) ) => ~ret

\* the entailment example, answered true
C1_Witness ==
    /\ AskReturned
    /\ clauses = {MazeClause(<<Lit(1, 1, TRUE), Lit(2, 1, TRUE)>>),
                  MazeClause(<<Lit(1, 1, FALSE)>>)}
    /\ query = MazeClause(<<Lit(2, 1, TRUE)>>)
    /\ ret

\* C2: for every store and every query clause of any shape, ask returns
\* true exactly when the stored clauses entail the query clause.
C2_AskAnyQuery == AskReturned => (ret <=> Entails(clauses, query))

\* C3: ask terminates: a round of its loop returns or strictly enlarges
\* the working set, and the working set stays within the finite set of
\* clauses, so ask has run fewer rounds than it holds clauses and returns
\* within as many rounds as there are clauses.
C3_AskTerminates ==
    /\ [](pc = "loop" => (temp_kb \subseteq AllClauses /\ rounds < Cardinality(temp_kb)))
    /\ [](rounds <= Cardinality(AllClauses))
    /\ [][pc = "loop" =>
              \/ pc' = "idle"
              \/ pc' = "loop" /\ temp_kb \subseteq temp_kb' /\ temp_kb' # temp_kb]_vars

\* an ask returned in its third round, after two that enlarged the working set
C3_Witness == AskReturned /\ rounds = 3

\* C4: ask never changes the store: from its call to its return, and
\* after it, the store is the clause set it was called on.
C4_AskLeavesStore == op = "ask" => clauses = pre

\* an ask that answered true on a store of two clauses, neither the
\* negated query, left both in place
C4_Witness ==
    /\ AskReturned
    /\ ret
    /\ Cardinality(clauses) = 2
    /\ NegatedQuery(query) \notin clauses
    /\ clauses = pre

\* C9: simplify_self is idempotent: a second call with the same known_pits
\* and known_safe leaves the store as the first call left it.
C9_SimplifyIdempotent ==
    [][(/\ op = "simplify"
        /\ op' = "simplify"
        /\ nsimplify' = nsimplify + 1
        /\ known_pits' = known_pits
        /\ known_safe' = known_safe) => clauses' = clauses]_vars

\* C10: the store after simplify_self alone entails the store before it:
\* every truth assignment that satisfies all clauses of the store after
\* the call satisfies all clauses of the store before it.
C10_SimplifiedEntailsOriginal ==
    op = "simplify" =>
        \A a \in Assignments : SatisfiesAll(a, clauses) => SatisfiesAll(a, pre)

\* C11: simplify_self condenses the store: the store holds no more clauses
\* after the call than before it.
C11_SimplifyNeverGrows ==
    op = "simplify" => Cardinality(clauses) <= Cardinality(pre)

\* C12: from the store {(P(1,1) v ~P(2,1)), (~P(1,1) v P(1,2))},
\* simplify_self(known_pits = {(1,1)}, known_safe = {}) leaves exactly
\* {P(1,1), P(1,2)}, in whatever order the clauses are visited.
C12_DocExampleResult ==
    ( /\ op = "simplify"
      /\ pre = DocExampleKB
      /\ known_pits = {<<1, 1>>}
      /\ known_safe = {} ) =>
        clauses = {MazeClause(<<<<<<"P", <<1, 1>>>>, TRUE>>>>),
                   MazeClause(<<<<<<"P", <<1, 2>>>>, TRUE>>>>)}

WellFormed(c) ==
    /\ ~(is_valid(c) /\ is_empty(c))
    /\ is_valid(c) => ClauseLen(c) = 0
    /\ ClauseLen(c) >= 1 => ~is_valid(c) /\ ~is_empty(c)

\* what the constructor builds from every input
ConstructedWellFormed == \A c \in AllClauses : WellFormed(c)

\* every clause the program holds in a state
ClausesInState ==
    clauses \cup pre \cup temp_kb \cup new \cup resolvents
        \cup {told, query, built, c1, c2}

\* C14: every clause that exists (built by the constructor, returned by
\* resolve, in ask's working set, in the store after tell or simplify_self)
\* is well formed: not both valid and empty, no proposition when valid,
\* neither valid nor empty when it holds a proposition.
C14_ClausesWellFormed ==
    /\ ConstructedWellFormed
    /\ \A c \in ClausesInState : WellFormed(c)

\* ask is at work on a store with a valid clause and has derived a clause
\* that holds a proposition
C14_Witness ==
    /\ pc = "loop"
    /\ rounds >= 1
    /\ \E c \in temp_kb : is_valid(c)
    /\ \E c \in new : ClauseLen(c) >= 1

\* the last simplify_self had one known location: it made one call of
\* get_simplified_clauses(pre, PassLoc, PassIsPit)
OnePass == op = "simplify" /\ Cardinality(known_pits \cup known_safe) = 1
PassLoc == CHOOSE loc \in known_pits \cup known_safe : TRUE
PassIsPit == PassLoc \in known_pits
PassFact == MazeClause(<<<<<<"P", PassLoc>>, PassIsPit>>>>)

C16_UnitClausesStay ==
    op = "simplify" => \A c \in pre : ClauseLen(c) = 1 => c \in clauses

\* a unit clause that contradicts a known fact, and one that states it, both
\* stayed through a call that changed the store
C16_Witness ==
    /\ op = "simplify"
    /\ clauses # pre
    /\ \E loc \in known_pits :
           /\ MazeClause(<<<<<<"P", loc>>, FALSE>>>>) \in pre \cap clauses
    /\ \E loc \in known_pits \cup known_safe :
           /\ MazeClause(<<<<<<"P", loc>>, loc \in known_pits>>>>) \in pre \cap clauses

\* the truth assignments that agree with the known facts of the last
\* simplify_self: P true at every known pit, false at every known safe tile
ConsistentAssignments ==
    {a \in Assignments :
        /\ \A loc \in known_pits : a[<<"P", loc>>]
        /\ \A loc \in known_safe : ~a[<<"P", loc>>]}

\* C17: simplify_self keeps the store's content relative to the known facts:
\* with disjoint known_pits and known_safe, a truth assignment that agrees
\* with them satisfies the store after the call exactly if it satisfies the
\* store before it.
C17_SimplifyKeepsContent ==
    op = "simplify" =>
        \A a \in ConsistentAssignments :
            SatisfiesAll(a, clauses) <=> SatisfiesAll(a, pre)

\* a call that removed a clause and added a resolvent, on a store that some
\* assignments agreeing with the known facts satisfy and others do not
C17_Witness ==
    /\ op = "simplify"
    /\ pre \ clauses # {}
    /\ clauses \ pre # {}
    /\ \E a \in ConsistentAssignments : SatisfiesAll(a, clauses)
    /\ \E a \in ConsistentAssignments : ~SatisfiesAll(a, clauses)

\* C18: ask is sound for a query of any shape (one literal, several
\* literals, valid, empty): when ask(query) returns true, every truth
\* assignment that satisfies all stored clauses satisfies the query.
C18_AskSound == (AskReturned /\ ret) => Entails(clauses, query)

\* ask answered true for a query of two literals on a consistent store
C18_Witness ==
    /\ AskReturned
    /\ ret
    /\ ClauseLen(query) = 2
    /\ \E a \in Assignments : SatisfiesAll(a, clauses)

\* C19: simplify_self gives the same store for every order in which the
\* stored clauses and the known locations are visited: the store after the
\* call is the only result the call can have.
C19_SimplifyOrderIndependent ==
    op = "simplify" =>
        simplify_from_known_locs(pre, known_pits \cup known_safe, known_pits)
            = {clauses}

=============================================================================
